---- MODULE Spec2Model ----
(***************************************************************************)
(* Orion: the conversation session of src/App.tsx (component App) and the  *)
(* response gateway of src/services/geminiService.ts.                      *)
(*                                                                         *)
(* The state is the React state of App plus what the JavaScript event loop *)
(* holds for it: the calls of generateOrionResponse that have not settled  *)
(* and the setTimeout callbacks that have not run.  One action is one task *)
(* of the event loop: a DOM event handler, a timer callback, or the        *)
(* continuation of handleSendMessage after its await.                      *)
(*                                                                         *)
(* Text is a sequence of characters, so that String.trim is computed.  A   *)
(* long literal of the source is written as a one-element sequence.  An   *)
(* optional value is a sequence of length 0 or 1.  Of a Message the        *)
(* timestamp is left out.  The clock is read only to make the id of a      *)
(* message, and no step reads an id, so a specification whose clock stands *)
(* still has the same behaviours in every other variable; ClockSpec lets   *)
(* the clock advance, for what is said of the ids.  PromptSpec runs one    *)
(* turn from a session with a transcript, attachments, a device context    *)
(* and settings, for what is said of the request that is assembled.        *)
(* ObserverSpec adds the callbacks that refresh the device context and the *)
(* buttons of the settings panel, for what is said of their interference   *)
(* with a turn.                                                            *)
(***************************************************************************)
EXTENDS Integers, Sequences, FiniteSets, TLC

\* ---------------------------------------------------------------- bounds
MaxTurns == 3      \* accepted submits in one run
MaxFairTurns == 2  \* accepted submits in one run of the fair specification
MaxImages == 1     \* images attached to one message
MaxHistory == 8    \* entries of the transcript a prompt is assembled from
MaxPromptImages == 2  \* images a prompt is assembled from
MaxTime == 2       \* milliseconds the clock advances in one run
MaxClockTurns == 2 \* accepted submits in one run of the clock specification
MaxObserverTurns == 1 \* accepted submits in one run with the context observer

\* ------------------------------------------------------ program constants
GreetingDelay == 1000
ReplyDelay == 800
ErrorDelay == 3000
\* history.slice(-6)
ContextWindow == 6

\* enum OrionState
Idle == "idle"
Listening == "listening"
Thinking == "thinking"
Responding == "responding"
Error == "error"
OrionState == {Idle, Listening, Thinking, Responding, Error}

\* enum Sender
User == "user"
Orion == "orion"

INITIAL_GREETING == <<"Orion systems online. Physiological and environmental sensors calibrated. How may I assist you today?">>
FallbackText == <<"Systems unresponsive. Please try again.">>

\* DEFAULT_SETTINGS
DEFAULT_SETTINGS ==
  [personality |-> "professional", visualIntensity |-> "balanced",
   voiceEnabled |-> FALSE]

\* the initial DeviceContext of App, in a browser that is online; the
\* battery level is in thousandths
InitialContext ==
  [batteryLevel |-> <<>>, isCharging |-> FALSE, isOnline |-> TRUE,
   platform |-> "platform", currentTime |-> "time", geolocation |-> <<>>]

\* ------------------------------------------------------------ input sets
\* what the user types into the input box
Texts == {<<>>, <<" ">>, <<"a">>}
\* what the FileReader hands to handleFileUpload, as the pieces of a data URI
ImageSet == {<<"data", ":", "image/jpeg", ";", "base64", ",", "QUJD">>}
\* response.text of the generative service
ResponseTexts == {<<>>, <<"r">>}

\* inputs of the prompt assembler: data URIs "data:<mime>;base64,<payload>"
\* as FileReader.readAsDataURL makes them, and a string without the header
MimeTypes == {<<"image/jpeg">>, <<>>}
Payloads == {<<"QUJD">>, <<"REVG">>}
DataUri(mime, payload) == <<"data", ":">> \o mime \o <<";", "base64", ",">> \o payload
DataUris == {DataUri(m, p) : m \in MimeTypes, p \in Payloads}
PromptImages == DataUris \cup {<<"QUJD">>}
PromptImageLists == UNION {[1..n -> PromptImages] : n \in 0..MaxPromptImages}
PromptContexts ==
  {[batteryLevel |-> b, isCharging |-> FALSE, isOnline |-> o,
    platform |-> "platform", currentTime |-> "time", geolocation |-> g] :
     b \in {<<>>, <<420>>}, o \in BOOLEAN, g \in {<<>>, <<[lat |-> 1, lng |-> 2]>>}}
PromptSettings ==
  {[personality |-> q, visualIntensity |-> "balanced", voiceEnabled |-> FALSE] :
     q \in {"professional", "friendly", "direct"}}

VARIABLES
  messages,        \* useState<Message[]>: the transcript
  input,           \* useState('') : pending input text
  attachedImages,  \* useState<string[]>: pending attached images
  orionState,      \* useState<OrionState>
  requests,        \* calls of generateOrionResponse that have not settled
  timers,          \* pending setTimeout callbacks, in the order they were set
  hasApiKey,       \* process.env.API_KEY is set
  deviceContext,   \* useState<DeviceContext>
  settings,        \* useState<OrionSettings>
  now,             \* Date.now()
  invocations,     \* history: number of calls of generateOrionResponse
  outbound,        \* history: number of calls of ai.models.generateContent
  turns,           \* history: number of accepted submits
  outcome,         \* history: per turn, how its gateway call ended, the
                   \* response.text it got and the text it returned
  submitted        \* history: the task that ran last was handleSendMessage

vars == <<messages, input, attachedImages, orionState, requests, timers,
          hasApiKey, deviceContext, settings, now, invocations, outbound,
          turns, outcome, submitted>>

\* what the turn flow reads and never writes
ambient == <<hasApiKey, deviceContext, settings, now>>
counters == <<invocations, outbound>>

\* --------------------------------------------------------------- helpers
IsSpace(c) == c = " "

RECURSIVE TrimStart(_)
TrimStart(s) ==
  IF s = <<>> THEN <<>>
  ELSE IF IsSpace(Head(s)) THEN TrimStart(Tail(s)) ELSE s

RECURSIVE TrimEnd(_)
TrimEnd(s) ==
  IF s = <<>> THEN <<>>
  ELSE IF IsSpace(s[Len(s)]) THEN TrimEnd(SubSeq(s, 1, Len(s) - 1)) ELSE s

\* String.prototype.trim
Trim(s) == TrimEnd(TrimStart(s))

IsPrefix(s, t) == Len(s) <= Len(t) /\ SubSeq(t, 1, Len(s)) = s

\* the early return of handleSendMessage, without the test of the state
GuardIgnoresThinking(inp, imgs, st) ==
  Trim(inp) = <<>> /\ Len(imgs) = 0

\* the early return of handleSendMessage, without the test of the input
GuardIgnoresEmpty(inp, imgs, st) ==
  st = Thinking

\* the early return of handleSendMessage
SubmitRejected(inp, imgs, st) ==
  (Trim(inp) = <<>> /\ Len(imgs) = 0) \/ st = Thinking

\* newUserMessage with the attachments dropped
NewUserMessageNoAttachments(inp, imgs, t, n) ==
  [id |-> ToString(t), text |-> inp, sender |-> User,
   attachments |-> <<>>, turn |-> n]

\* newUserMessage; turn is history, the number of the turn it opens
NewUserMessage(inp, imgs, t, n) ==
  [id |-> ToString(t), text |-> inp, sender |-> User,
   attachments |-> imgs, turn |-> n]

\* newOrionMessage; turn is history, the turn whose call returned the text
NewOrionMessage(text, t, n) ==
  [id |-> ToString(t + 1), text |-> text, sender |-> Orion,
   attachments |-> <<>>, turn |-> n]

\* the message of the boot timer
GreetingMessage ==
  [id |-> "init-1", text |-> INITIAL_GREETING, sender |-> Orion,
   attachments |-> <<>>, turn |-> 0]

\* generateOrionResponse resolving with response.text as it is
ResponseTextNoFallback(raw) == raw

\* what generateOrionResponse resolves with: response.text || fallback
ResponseText(raw) == IF raw = <<>> THEN FallbackText ELSE raw

\* ------------------------------------------------- the prompt assembler
\* the value of an array index that is out of range
Undefined == <<"undefined">>
Falsy(v) == v = Undefined \/ v = <<>>

FirstIndex(s, d) ==
  IF \E i \in 1..Len(s) : s[i] = d
  THEN CHOOSE i \in 1..Len(s) : s[i] = d /\ \A j \in 1..(i - 1) : s[j] # d
  ELSE 0

\* String.prototype.split with a one-character separator
RECURSIVE Split(_, _)
Split(s, d) ==
  IF FirstIndex(s, d) = 0 THEN <<s>>
  ELSE <<SubSeq(s, 1, FirstIndex(s, d) - 1)>>
         \o Split(SubSeq(s, FirstIndex(s, d) + 1, Len(s)), d)

\* arr[k], k counted from 0
At(arr, k) == IF k + 1 <= Len(arr) THEN arr[k + 1] ELSE Undefined

\* recentHistory, taken from the front of the history
RecentHistoryFromStart(history) ==
  SubSeq(history, 1, IF Len(history) < ContextWindow THEN Len(history) ELSE ContextWindow)

\* recentHistory = history.slice(-6)
RecentHistory(history) ==
  SubSeq(history,
         IF Len(history) > ContextWindow THEN Len(history) - ContextWindow + 1 ELSE 1,
         Len(history))

\* the label of a line, the same for both senders
SenderLabelAlwaysUser(sender) == "User"

\* msg.sender === Sender.User ? "User" : "Orion"
SenderLabel(sender) == IF sender = User THEN "User" ELSE "Orion"

\* conversationContext after the forEach over recentHistory
RECURSIVE ConversationContext(_)
ConversationContext(recent) ==
  IF recent = <<>> THEN <<>>
  ELSE <<SenderLabel(Head(recent).sender), ": ">> \o Head(recent).text \o <<"\n">>
         \o ConversationContext(Tail(recent))

\* fullPrompt
FullPrompt(history, currentPrompt) ==
  ConversationContext(RecentHistory(history)) \o <<"\n", "User", ": ">> \o currentPrompt

ImagePng == <<"image/png">>

\* the part pushed for an image, with the whole string as its data
ImagePartUnsplit(base64) ==
  [inlineData |-> [mimeType |-> ImagePng, data |-> base64]]

\* the part pushed for an image by images.forEach
ImagePart(base64) ==
  LET rawBase64 == At(Split(base64, ","), 1)
      mimeType == At(Split(At(Split(base64, ";"), 0), ":"), 1)
  IN [inlineData |-> [mimeType |-> IF Falsy(mimeType) THEN ImagePng ELSE mimeType,
                      data |-> rawBase64]]

\* parts
Parts(history, currentPrompt, images) ==
  <<[text |-> FullPrompt(history, currentPrompt)]>>
    \o [i \in 1..Len(images) |-> ImagePart(images[i])]

\* personalityTraits[settings.personality]
PersonalityTraits(personality) ==
  CASE personality = "professional" ->
         "efficient, precise, and polite. Use technical terminology when appropriate but prioritize clarity."
    [] personality = "friendly" ->
         "warm, approachable, and conversational. Use emojis sparingly and sound like a helpful companion."
    [] personality = "direct" ->
         "concise to the point of brevity. Eliminate pleasantries and focus entirely on the data or action."

\* (batteryLevel * 100).toFixed(0), the level being in thousandths
Percent(level) == (level + 5) \div 10

PowerLine(context) ==
  <<"- Power: ">>
    \o (IF context.batteryLevel # <<>>
        THEN <<ToString(Percent(context.batteryLevel[1])), "%">>
        ELSE <<"Unknown">>)
    \o <<" ", IF context.isCharging THEN "(Charging)" ELSE "(Discharging)">>

LocationLine(context) ==
  IF context.geolocation # <<>>
  THEN <<"- Location: Lat ", ToString(context.geolocation[1].lat),
         ", Lng ", ToString(context.geolocation[1].lng)>>
  ELSE <<>>

\* getSystemInstruction with a placeholder for a missing geolocation
GetSystemInstructionWithPlaceholder(context, stg) ==
  << <<"- Tone: ", PersonalityTraits(stg.personality)>>,
     <<"- Time: ", context.currentTime>>,
     <<"- Connection: ", IF context.isOnline THEN "Online" ELSE "Offline">>,
     PowerLine(context),
     <<"- Platform: ", context.platform>>,
     IF context.geolocation # <<>> THEN LocationLine(context)
     ELSE <<"- Location: ", "Unknown">> >>

\* getSystemInstruction: the lines of the template that have a placeholder
\* (the fixed lines around them are left out), one sequence per line
GetSystemInstruction(context, stg) ==
  << <<"- Tone: ", PersonalityTraits(stg.personality)>>,
     <<"- Time: ", context.currentTime>>,
     <<"- Connection: ", IF context.isOnline THEN "Online" ELSE "Offline">>,
     PowerLine(context),
     <<"- Platform: ", context.platform>>,
     LocationLine(context) >>

\* generateOrionResponse without the test of the API key: the outbound call
\* is made whether or not a key is configured
NewRequestNoKeyCheck(n, msgs, inp, imgs, context, stg, key) ==
  [turn |-> n, history |-> msgs, currentPrompt |-> inp, images |-> imgs,
   context |-> context, settings |-> stg, called |-> TRUE,
   parts |-> Parts(msgs, inp, imgs),
   systemInstruction |-> GetSystemInstruction(context, stg)]

\* the call of generateOrionResponse made by handleSendMessage: its
\* arguments, whether it got past the API key test to the outbound call,
\* and what that call sends
NewRequest(n, msgs, inp, imgs, context, stg, key) ==
  [turn |-> n, history |-> msgs, currentPrompt |-> inp, images |-> imgs,
   context |-> context, settings |-> stg, called |-> key,
   parts |-> IF key THEN Parts(msgs, inp, imgs) ELSE <<>>,
   systemInstruction |-> IF key THEN GetSystemInstruction(context, stg) ELSE <<>>]

GreetingTimer == [kind |-> "greeting", delay |-> GreetingDelay, turn |-> 0, text |-> <<>>]
ReplyTimer(n, text) == [kind |-> "reply", delay |-> ReplyDelay, turn |-> n, text |-> text]
ErrorTimer(n) == [kind |-> "error", delay |-> ErrorDelay, turn |-> n, text |-> <<>>]

\* Timer i may run next: every timer set before it with a delay no longer
\* than its own has already run (timers run in order of their deadlines,
\* and of setting for equal deadlines).
CanFire(i) == \A j \in 1..(i - 1) : timers[j].delay > timers[i].delay

RemoveAt(s, i) == SubSeq(s, 1, i - 1) \o SubSeq(s, i + 1, Len(s))

\* A rejected promise of generateOrionResponse that threw before its await:
\* the catch of handleSendMessage runs as a microtask, before any other task.
MicrotaskPending == \E r \in requests : ~r.called

\* ------------------------------------------------------------------ Init
Init ==
  /\ messages = <<>>
  /\ input = <<>>
  /\ attachedImages = <<>>
  /\ orionState = Idle
  /\ requests = {}
  /\ timers = <<GreetingTimer>>
  /\ hasApiKey \in BOOLEAN
  /\ deviceContext = InitialContext
  /\ settings = DEFAULT_SETTINGS
  /\ now = 0
  /\ invocations = 0
  /\ outbound = 0
  /\ turns = 0
  /\ outcome = [n \in 1..MaxTurns |-> [status |-> "none", raw |-> <<>>, text |-> <<>>]]
  /\ submitted = FALSE

\* --------------------------------------------------------------- actions
\* onChange of the textarea
SetInput(t) ==
  /\ ~MicrotaskPending
  /\ input' = t
  /\ submitted' = FALSE
  /\ UNCHANGED <<messages, attachedImages, orionState, requests, timers,
                 ambient, counters, turns, outcome>>

\* handleFileUpload, when the reader has loaded the file
AttachImage(img) ==
  /\ ~MicrotaskPending
  /\ Len(attachedImages) < MaxImages
  /\ attachedImages' = Append(attachedImages, img)
  /\ submitted' = FALSE
  /\ UNCHANGED <<messages, input, orionState, requests, timers,
                 ambient, counters, turns, outcome>>

\* onClick of the remove button of an attached image
ClearImages ==
  /\ ~MicrotaskPending
  /\ Len(attachedImages) > 0
  /\ attachedImages' = <<>>
  /\ submitted' = FALSE
  /\ UNCHANGED <<messages, input, orionState, requests, timers,
                 ambient, counters, turns, outcome>>

\* handleSendMessage up to its await (Enter key or send button); limit
\* bounds the number of accepted submits
Submit(limit) ==
  /\ ~MicrotaskPending
  /\ submitted' = TRUE
  /\ IF SubmitRejected(input, attachedImages, orionState)
     THEN UNCHANGED <<messages, input, attachedImages, orionState, requests,
                      timers, ambient, counters, turns, outcome>>
     ELSE /\ turns < limit
          /\ turns' = turns + 1
          /\ messages' = Append(messages,
                                NewUserMessage(input, attachedImages, now, turns + 1))
          /\ input' = <<>>
          /\ attachedImages' = <<>>
          /\ orionState' = Thinking
          /\ LET r == NewRequest(turns + 1, messages, input, attachedImages,
                                 deviceContext, settings, hasApiKey)
             IN /\ requests' = requests \cup {r}
                /\ outbound' = IF r.called THEN outbound + 1 ELSE outbound
          /\ outcome' = [outcome EXCEPT ![turns + 1].status = "pending"]
          /\ invocations' = invocations + 1
          /\ UNCHANGED <<timers, ambient>>

\* handleSendMessage after the await resolved, setting Listening where the
\* code sets Responding
GatewaySuccessToListening(r, raw) ==
  /\ ~MicrotaskPending
  /\ r \in requests /\ r.called
  /\ requests' = requests \ {r}
  /\ orionState' = Listening
  /\ timers' = Append(timers, ReplyTimer(r.turn, ResponseText(raw)))
  /\ outcome' = [outcome EXCEPT ![r.turn] =
                                    [status |-> "ok", raw |-> raw,
                                     text |-> ResponseText(raw)]]
  /\ submitted' = FALSE
  /\ UNCHANGED <<messages, input, attachedImages, ambient, counters, turns>>

\* handleSendMessage after the await resolved, up to its setTimeout
GatewaySuccess(r, raw) ==
  /\ ~MicrotaskPending
  /\ r \in requests /\ r.called
  /\ requests' = requests \ {r}
  /\ orionState' = Responding
  /\ timers' = Append(timers, ReplyTimer(r.turn, ResponseText(raw)))
  /\ outcome' = [outcome EXCEPT ![r.turn] =
                                    [status |-> "ok", raw |-> raw,
                                     text |-> ResponseText(raw)]]
  /\ submitted' = FALSE
  /\ UNCHANGED <<messages, input, attachedImages, ambient, counters, turns>>

\* the catch of handleSendMessage, with an error detail put in the transcript
GatewayFailureWithDetail(r) ==
  /\ r \in requests
  /\ ~r.called \/ ~MicrotaskPending
  /\ requests' = requests \ {r}
  /\ orionState' = Error
  /\ messages' = Append(messages, NewOrionMessage(<<"error">>, now, r.turn))
  /\ timers' = Append(timers, ErrorTimer(r.turn))
  /\ outcome' = [outcome EXCEPT ![r.turn].status = "failed"]
  /\ submitted' = FALSE
  /\ UNCHANGED <<input, attachedImages, ambient, counters, turns>>

\* the catch of handleSendMessage, calling generateOrionResponse once more
\* for a turn whose first call failed
GatewayFailureWithRetry(r) ==
  /\ r \in requests
  /\ ~r.called \/ ~MicrotaskPending
  /\ IF outcome[r.turn].status = "pending"
     THEN /\ outcome' = [outcome EXCEPT ![r.turn].status = "retried"]
          /\ invocations' = invocations + 1
          /\ outbound' = IF r.called THEN outbound + 1 ELSE outbound
          /\ UNCHANGED <<requests, orionState, timers>>
     ELSE /\ requests' = requests \ {r}
          /\ orionState' = Error
          /\ timers' = Append(timers, ErrorTimer(r.turn))
          /\ outcome' = [outcome EXCEPT ![r.turn].status = "failed"]
          /\ UNCHANGED counters
  /\ submitted' = FALSE
  /\ UNCHANGED <<messages, input, attachedImages, ambient, turns>>

\* the catch of handleSendMessage: generateOrionResponse threw (no API key)
\* or rethrew what the outbound call raised
GatewayFailure(r) ==
  /\ r \in requests
  /\ ~r.called \/ ~MicrotaskPending
  /\ requests' = requests \ {r}
  /\ orionState' = Error
  /\ timers' = Append(timers, ErrorTimer(r.turn))
  /\ outcome' = [outcome EXCEPT ![r.turn].status = "failed"]
  /\ submitted' = FALSE
  /\ UNCHANGED <<messages, input, attachedImages, ambient, counters, turns>>

\* the callback of the boot timer
FireGreeting(i) ==
  /\ ~MicrotaskPending
  /\ i \in 1..Len(timers) /\ timers[i].kind = "greeting" /\ CanFire(i)
  /\ messages' = <<GreetingMessage>>
  /\ timers' = RemoveAt(timers, i)
  /\ submitted' = FALSE
  /\ UNCHANGED <<input, attachedImages, orionState, requests, ambient, counters,
                 turns, outcome>>

\* the callback of the display-delay timer, leaving the state alone
FireReplyKeepState(i) ==
  /\ ~MicrotaskPending
  /\ i \in 1..Len(timers) /\ timers[i].kind = "reply" /\ CanFire(i)
  /\ messages' = Append(messages,
                        NewOrionMessage(timers[i].text, now, timers[i].turn))
  /\ timers' = RemoveAt(timers, i)
  /\ submitted' = FALSE
  /\ UNCHANGED <<orionState, input, attachedImages, requests, ambient, counters,
                 turns, outcome>>

\* the callback of the display-delay timer
FireReply(i) ==
  /\ ~MicrotaskPending
  /\ i \in 1..Len(timers) /\ timers[i].kind = "reply" /\ CanFire(i)
  /\ messages' = Append(messages,
                        NewOrionMessage(timers[i].text, now, timers[i].turn))
  /\ orionState' = Idle
  /\ timers' = RemoveAt(timers, i)
  /\ submitted' = FALSE
  /\ UNCHANGED <<input, attachedImages, requests, ambient, counters, turns, outcome>>

\* the callback of the error timer, leaving the state alone
FireErrorKeepState(i) ==
  /\ ~MicrotaskPending
  /\ i \in 1..Len(timers) /\ timers[i].kind = "error" /\ CanFire(i)
  /\ timers' = RemoveAt(timers, i)
  /\ submitted' = FALSE
  /\ UNCHANGED <<orionState, messages, input, attachedImages, requests,
                 ambient, counters, turns, outcome>>

\* the callback of the error timer, set with setInterval: it stays pending
FireErrorRearmed(i) ==
  /\ ~MicrotaskPending
  /\ i \in 1..Len(timers) /\ timers[i].kind = "error" /\ CanFire(i)
  /\ orionState' = Idle
  /\ submitted' = FALSE
  /\ UNCHANGED <<timers, messages, input, attachedImages, requests, ambient,
                 counters, turns, outcome>>

\* the callback of the error timer
FireError(i) ==
  /\ ~MicrotaskPending
  /\ i \in 1..Len(timers) /\ timers[i].kind = "error" /\ CanFire(i)
  /\ orionState' = Idle
  /\ timers' = RemoveAt(timers, i)
  /\ submitted' = FALSE
  /\ UNCHANGED <<messages, input, attachedImages, requests, ambient, counters,
                 turns, outcome>>

Step(limit) ==
  \/ \E t \in Texts : SetInput(t)
  \/ \E img \in ImageSet : AttachImage(img)
  \/ ClearImages
  \/ Submit(limit)
  \/ \E r \in requests : \E raw \in ResponseTexts : GatewaySuccess(r, raw)
  \/ \E r \in requests : GatewayFailure(r)
  \/ \E i \in 1..Len(timers) : FireGreeting(i)
  \/ \E i \in 1..Len(timers) : FireReply(i)
  \/ \E i \in 1..Len(timers) : FireError(i)

Next == Step(MaxTurns)

Spec == Init /\ [][Next]_vars

\* the event loop runs a due timer callback and a pending microtask
FireHead == FireGreeting(1) \/ FireReply(1) \/ FireError(1)
RunMicrotask == \E r \in requests : ~r.called /\ GatewayFailure(r)
FairNext == Step(MaxFairTurns)
FairSpec ==
  Init /\ [][FairNext]_vars /\ WF_vars(FireHead) /\ WF_vars(RunMicrotask)

\* a call that went out settles: the promise of generateContent resolves or
\* rejects
SettleCall ==
  \E r \in requests :
    r.called /\ ((\E raw \in ResponseTexts : GatewaySuccess(r, raw)) \/ GatewayFailure(r))
LiveSpec ==
  Init /\ [][FairNext]_vars
    /\ WF_vars(FireHead) /\ WF_vars(RunMicrotask) /\ WF_vars(SettleCall)

\* ------------------------------------- the prompt assembler on its inputs
\* entry i of a transcript: the greeting, then turns of which every second
\* one failed (a failed turn leaves its user message only)
HistoryEntry(i) ==
  IF i = 1 THEN GreetingMessage
  ELSE IF i % 3 = 2 THEN NewUserMessage(<<"a">>, <<>>, 0, 0)
  ELSE IF i % 3 = 0 THEN NewOrionMessage(<<"r">>, 0, 0)
  ELSE NewUserMessage(<<" ">>, <<DataUri(<<"image/jpeg">>, <<"QUJD">>)>>, 0, 0)
Histories == {[i \in 1..n |-> HistoryEntry(i)] : n \in 0..MaxHistory}

\* a session at rest with a transcript, a pending input, a device context
\* and settings, on which one turn runs
PromptInit ==
  /\ messages \in Histories
  /\ input \in Texts
  /\ attachedImages \in PromptImageLists
  /\ orionState = Idle
  /\ requests = {}
  /\ timers = <<>>
  /\ hasApiKey = TRUE
  /\ deviceContext \in PromptContexts
  /\ settings \in PromptSettings
  /\ now = 0
  /\ invocations = 0
  /\ outbound = 0
  /\ turns = 0
  /\ outcome = [n \in 1..MaxTurns |-> [status |-> "none", raw |-> <<>>, text |-> <<>>]]
  /\ submitted = FALSE

PromptNext ==
  \/ Submit(1)
  \/ \E r \in requests : \E raw \in ResponseTexts : GatewaySuccess(r, raw)
  \/ \E r \in requests : GatewayFailure(r)
  \/ \E i \in 1..Len(timers) : FireReply(i)
  \/ \E i \in 1..Len(timers) : FireError(i)

PromptSpec == PromptInit /\ [][PromptNext]_vars

\* ------------------------------------------------- the session on a clock
\* Date.now() advances by a millisecond, between two tasks
Tick ==
  /\ now < MaxTime
  /\ now' = now + 1
  /\ submitted' = FALSE
  /\ UNCHANGED <<messages, input, attachedImages, orionState, requests, timers,
                 hasApiKey, deviceContext, settings, counters, turns, outcome>>

ClockNext == Step(MaxClockTurns) \/ Tick
ClockSpec == Init /\ [][ClockNext]_vars

\* ------------------------------------ the session with the context observer
\* new Date().toLocaleString() at mount and at a later minute
ClockTexts == {"time", "later"}
\* battery.level, in thousandths
BatteryLevels == {420}
\* the buttons of the settings panel that are clicked: two of the three
\* personalities and two of the three visual intensities
Personalities == {"professional", "direct"}
VisualIntensities == {"minimal", "balanced"}

\* what an observer or settings task leaves alone
session == <<messages, input, attachedImages, orionState, requests, timers,
             hasApiKey, now, counters, turns, outcome>>

\* the callback of clockInterval
RefreshClock(t) ==
  /\ ~MicrotaskPending
  /\ deviceContext' = [deviceContext EXCEPT !.currentTime = t]
  /\ submitted' = FALSE
  /\ UNCHANGED <<session, settings>>

HandleOnline ==
  /\ ~MicrotaskPending
  /\ deviceContext' = [deviceContext EXCEPT !.isOnline = TRUE]
  /\ submitted' = FALSE
  /\ UNCHANGED <<session, settings>>

\* handleOffline, putting the session in Error as well
HandleOfflineSetsError ==
  /\ ~MicrotaskPending
  /\ deviceContext' = [deviceContext EXCEPT !.isOnline = FALSE]
  /\ orionState' = Error
  /\ submitted' = FALSE
  /\ UNCHANGED <<messages, input, attachedImages, requests, timers,
                 hasApiKey, now, counters, turns, outcome, settings>>

HandleOffline ==
  /\ ~MicrotaskPending
  /\ deviceContext' = [deviceContext EXCEPT !.isOnline = FALSE]
  /\ submitted' = FALSE
  /\ UNCHANGED <<session, settings>>

\* updateBattery: on getBattery's resolution, levelchange and chargingchange
UpdateBattery(level, charging) ==
  /\ ~MicrotaskPending
  /\ deviceContext' = [deviceContext EXCEPT !.batteryLevel = <<level>>,
                                             !.isCharging = charging]
  /\ submitted' = FALSE
  /\ UNCHANGED <<session, settings>>

\* onClick of a personality button of the settings panel
SetPersonality(q) ==
  /\ ~MicrotaskPending
  /\ settings' = [settings EXCEPT !.personality = q]
  /\ submitted' = FALSE
  /\ UNCHANGED <<session, deviceContext>>

\* onClick of a visual intensity button of the settings panel
SetVisualIntensity(v) ==
  /\ ~MicrotaskPending
  /\ settings' = [settings EXCEPT !.visualIntensity = v]
  /\ submitted' = FALSE
  /\ UNCHANGED <<session, deviceContext>>

ObserverNext ==
  \/ Step(MaxObserverTurns)
  \/ \E t \in ClockTexts : RefreshClock(t)
  \/ HandleOnline
  \/ HandleOffline
  \/ \E level \in BatteryLevels, charging \in BOOLEAN : UpdateBattery(level, charging)
  \/ \E q \in Personalities : SetPersonality(q)
  \/ \E v \in VisualIntensities : SetVisualIntensity(v)
ObserverSpec == Init /\ [][ObserverNext]_vars

\* ----------------------------------------------------- steps and history
\* this step settles the call r with a failure / a success
FailsIn(r) == r \in requests /\ r \notin requests' /\ outcome'[r.turn].status = "failed"
SucceedsIn(r) == r \in requests /\ r \notin requests' /\ outcome'[r.turn].status = "ok"
\* this step runs the callback of timer i
Fires(i) == i \in 1..Len(timers) /\ timers' = RemoveAt(timers, i)
PendingTimers(kind, n) == {i \in 1..Len(timers) : timers[i].kind = kind /\ timers[i].turn = n}
Replies(n) == {i \in 1..Len(messages) : messages[i].sender = Orion /\ messages[i].turn = n}

\* ------------------------------------------------------------------- C1
\* C1: a submit that runs while the state is Thinking changes nothing: the
\* state, the transcript, the pending input text and images, the calls in
\* flight and the timers are the same after it.
C1_SubmitWhileThinkingIsNoOp ==
  [][(submitted' /\ orionState = Thinking) =>
       UNCHANGED <<orionState, messages, input, attachedImages, requests,
                   timers, turns>>]_vars

\* a submit with text in the box has just run in Thinking, and the text is
\* still in the box
C1_Witness ==
  submitted /\ orionState = Thinking /\ Trim(input) # <<>> /\ requests # {}

\* ------------------------------------------------------------------- C2
\* C2: in every reachable state at most one gateway call is in flight.
C2_AtMostOneInFlight == Cardinality(requests) <= 1

\* ------------------------------------------------------------------- C3
\* C3: whenever a gateway call is in flight the state is Thinking.
C3_InFlightImpliesThinking == requests # {} => orionState = Thinking

\* ------------------------------------------------------------------- C4
\* C4: the transcript is append-only: the transcript before a step is a
\* prefix of the transcript after it.
C4_TranscriptAppendOnly == [][IsPrefix(messages, messages')]_vars

\* ------------------------------------------------------------------- C5
AllowedTransitions ==
  {<<Idle, Thinking>>, <<Responding, Thinking>>, <<Error, Thinking>>,
   <<Thinking, Responding>>, <<Thinking, Error>>,
   <<Responding, Idle>>, <<Error, Idle>>}

\* C5: every change of the state is one of Idle->Thinking,
\* Responding->Thinking, Error->Thinking, Thinking->Responding,
\* Thinking->Error, Responding->Idle, Error->Idle.
C5_OnlyAllowedTransitions ==
  [][orionState' # orionState => <<orionState, orionState'>> \in AllowedTransitions]_vars

C7_SuccessThenOneReply ==
  /\ [][\A r \in requests :
          SucceedsIn(r) =>
            /\ orionState' = Responding
            /\ messages' = messages
            /\ Cardinality({i \in 1..Len(timers') :
                              timers'[i].kind = "reply" /\ timers'[i].turn = r.turn}) = 1]_vars
  /\ [][\A i \in 1..Len(timers) :
          (Fires(i) /\ timers[i].kind = "reply") =>
            /\ Len(messages') = Len(messages) + 1
            /\ SubSeq(messages', 1, Len(messages)) = messages
            /\ messages'[Len(messages')].sender = Orion
            /\ messages'[Len(messages')].text = outcome[timers[i].turn].text
            /\ orionState' = Idle]_vars
  /\ [](\A n \in 1..MaxTurns :
          outcome[n].status = "ok" =>
            Cardinality(PendingTimers("reply", n)) + Cardinality(Replies(n)) <= 1)
  /\ \A n \in 1..MaxTurns :
       (outcome[n].status = "ok") ~> (PendingTimers("reply", n) = {})

\* the reply of a successful call is the last entry of the transcript, its
\* timer has run and the state is Idle
C7_Witness ==
  /\ orionState = Idle
  /\ messages # <<>>
  /\ messages[Len(messages)].sender = Orion
  /\ messages[Len(messages)].turn # 0
  /\ outcome[messages[Len(messages)].turn].status = "ok"
  /\ messages[Len(messages)].text = outcome[messages[Len(messages)].turn].text
  /\ PendingTimers("reply", messages[Len(messages)].turn) = {}

\* ------------------------------------------------------------------- C8
\* C8: whenever the state is Error it is Idle at some later point, whatever
\* the user does in between.
C8_ErrorLeadsToIdle == (orionState = Error) ~> (orionState = Idle)

\* a call has failed, its error timer has run and the state is Idle
C8_Witness ==
  /\ orionState = Idle
  /\ \E n \in 1..MaxTurns :
       outcome[n].status = "failed" /\ PendingTimers("error", n) = {}

\* ------------------------------------------------------------------- C9
\* C9: a submit that runs with blank text (empty, or white space only) and
\* no attached image changes nothing, in every state: the state (which so
\* does not become Error), the transcript, the pending input, the calls in
\* flight and the timers are the same after it.
C9_EmptySubmitIsRejected ==
  [][(submitted' /\ Trim(input) = <<>> /\ attachedImages = <<>>) =>
       UNCHANGED <<orionState, messages, input, attachedImages, requests,
                   timers, turns>>]_vars

\* a submit has just run with nothing to send while the state was Error,
\* and the state still is Error
C9_Witness ==
  submitted /\ orionState = Error /\ input = <<>> /\ attachedImages = <<>>

\* ------------------------------------------------------------------ C10
\* what an accepted submit does
AcceptedEffect ==
  /\ Len(messages') = Len(messages) + 1
  /\ SubSeq(messages', 1, Len(messages)) = messages
  /\ messages'[Len(messages')].sender = User
  /\ messages'[Len(messages')].text = input
  /\ messages'[Len(messages')].attachments = attachedImages
  /\ input' = <<>>
  /\ attachedImages' = <<>>
  /\ orionState' = Thinking
  /\ \E r \in requests' \ requests :
       /\ requests' = requests \cup {r}
       /\ r.currentPrompt = input
       /\ r.images = attachedImages

\* C10 as claimed: a submit that runs in Idle, Responding or Error with
\* non-empty text or an image is accepted.
C10_NonEmptySubmitAccepted ==
  [][(submitted' /\ orionState \in {Idle, Responding, Error}
        /\ (input # <<>> \/ attachedImages # <<>>)) => AcceptedEffect]_vars

\* C10, amended: a submit that runs in Idle, Responding or Error with text
\* that is not blank (not empty once trimmed of white space) or with an
\* image is accepted.
C10_NonBlankSubmitAccepted ==
  [][(submitted' /\ orionState \in {Idle, Responding, Error}
        /\ (Trim(input) # <<>> \/ attachedImages # <<>>)) => AcceptedEffect]_vars

\* a submit with an image was accepted while an error timer was pending:
\* its user message closes the transcript and its call is in flight
C10_Witness ==
  /\ submitted /\ orionState = Thinking /\ input = <<>> /\ attachedImages = <<>>
  /\ messages # <<>>
  /\ messages[Len(messages)].sender = User
  /\ messages[Len(messages)].attachments # <<>>
  /\ \E r \in requests : r.turn = messages[Len(messages)].turn
  /\ \E i \in 1..Len(timers) : timers[i].kind = "error"

\* ------------------------------------------------------------------ C11
\* C11: a call that succeeded with an empty response returned the fallback
\* text, the reply of such a call carries the fallback text, and no
\* assistant message of the transcript has an empty text.
C11_EmptyResponseGivesFallback ==
  /\ \A n \in 1..MaxTurns :
       (outcome[n].status = "ok" /\ outcome[n].raw = <<>>) =>
          outcome[n].text = FallbackText
  /\ \A i \in 1..Len(messages) :
       messages[i].sender = Orion =>
         /\ messages[i].text # <<>>
         /\ (messages[i].turn # 0 /\ outcome[messages[i].turn].raw = <<>>) =>
               messages[i].text = FallbackText

\* the reply of a call that got an empty response is in the transcript,
\* with the fallback text
C11_Witness ==
  \E i \in 1..Len(messages) :
    /\ messages[i].sender = Orion /\ messages[i].turn # 0
    /\ outcome[messages[i].turn].status = "ok"
    /\ outcome[messages[i].turn].raw = <<>>
    /\ messages[i].text = FallbackText

\* ------------------------------------------------------------------ C12
\* the lines of the text part of a request
Lines(r) == Split(r.parts[1].text, "\n")
\* the number of transcript entries the text part renders: its lines less
\* the empty line and the line of the new text
Rendered(r) == Len(Lines(r)) - 2
Min(a, b) == IF a < b THEN a ELSE b

\* C12: the text part of every request renders at most 6 transcript
\* entries, and they are the last min(6, length) entries of the history, in
\* their order: line j carries the text of entry length - rendered + j.
C12_AtMostLastSixEntries ==
  \A r \in requests :
    r.called =>
      /\ Rendered(r) <= 6
      /\ Rendered(r) = Min(6, Len(r.history))
      /\ \A j \in 1..Rendered(r) :
           SubSeq(Lines(r)[j], 3, Len(Lines(r)[j]))
             = r.history[Len(r.history) - Rendered(r) + j].text

\* a request built from a history of more than 6 entries is in flight
C12_Witness ==
  \E r \in requests : r.called /\ Len(r.history) > 6 /\ Rendered(r) = 6

\* ------------------------------------------------------------------ C13
\* C13: a request has one image part per attachment, in attachment order;
\* the part of "data:<mime>;base64,<payload>" has that MIME type and that
\* payload, and image/png where the MIME type is empty or the string has
\* no header to parse.
C13_ImagePartsFollowAttachments ==
  \A r \in requests :
    r.called =>
      /\ Len(r.parts) = Len(r.images) + 1
      /\ \A i \in 1..Len(r.images) :
           /\ \A m \in MimeTypes, q \in Payloads :
                r.images[i] = DataUri(m, q) =>
                  /\ r.parts[i + 1].inlineData.mimeType
                       = (IF m = <<>> THEN <<"image/png">> ELSE m)
                  /\ r.parts[i + 1].inlineData.data = q
           /\ r.images[i] \notin DataUris =>
                r.parts[i + 1].inlineData.mimeType = <<"image/png">>

\* a request with two attachments is in flight: a JPEG first, then one
\* whose MIME type is empty, with different payloads
C13_Witness ==
  \E r \in requests :
    /\ r.called /\ Len(r.images) = 2
    /\ r.images[1] = <<"data", ":", "image/jpeg", ";", "base64", ",", "QUJD">>
    /\ r.parts[2].inlineData = [mimeType |-> <<"image/jpeg">>, data |-> <<"QUJD">>]
    /\ r.images[2] = <<"data", ":", ";", "base64", ",", "REVG">>
    /\ r.parts[3].inlineData = [mimeType |-> <<"image/png">>, data |-> <<"REVG">>]

\* ------------------------------------------------------------------ C15
\* the label of line j of the text part is the given one for each sender
LabelsAre(r, user, assistant) ==
  \A j \in 1..Rendered(r) :
    /\ Len(Lines(r)[j]) >= 2
    /\ Lines(r)[j][1] =
         (IF r.history[Len(r.history) - Rendered(r) + j].sender = User
          THEN user ELSE assistant)
    /\ Lines(r)[j][2] = ": "

\* C15 as claimed: the lines of the history are labelled "User:" and
\* "Assistant:" and the text part ends with "User: <new text>".
C15_LabelledUserAndAssistant ==
  \A r \in requests :
    r.called =>
      /\ LabelsAre(r, "User", "Assistant")
      /\ Lines(r)[Len(Lines(r))] = <<"User", ": ">> \o r.currentPrompt

\* C15, amended: the text part has one line per recent-history entry in
\* transcript order, labelled "User:" for user messages and "Orion:" for
\* assistant messages, then an empty line, then "User: <new text>" as its
\* final line; the history rendered is the transcript before the submit, so
\* the message of the new turn is not among its entries.
C15_LabelledUserAndOrion ==
  /\ [](\A r \in requests :
          r.called =>
            /\ Rendered(r) = Len(RecentHistory(r.history))
            /\ LabelsAre(r, "User", "Orion")
            /\ Lines(r)[Len(Lines(r)) - 1] = <<>>
            /\ Lines(r)[Len(Lines(r))] = <<"User", ": ">> \o r.currentPrompt
            /\ \A i \in 1..Len(r.history) : r.history[i].turn # r.turn)
  /\ [][\A r \in requests' \ requests :
          r.history = messages /\ r.currentPrompt = input]_vars

\* a request is in flight whose text part renders an assistant line and a
\* user line before the new text
C15_Witness ==
  \E r \in requests :
    /\ r.called /\ Rendered(r) >= 2 /\ r.currentPrompt = <<"a">>
    /\ \E j \in 1..Rendered(r) : Lines(r)[j][1] = "Orion"
    /\ \E j \in 1..Rendered(r) : Lines(r)[j][1] = "User"

\* ------------------------------------------------------------------ C16
Mentions(lines, token) ==
  \E i \in 1..Len(lines) : \E j \in 1..Len(lines[i]) : lines[i][j] = token

\* C16 as claimed: an absent optional field leaves no line and no
\* placeholder in the system instruction.
C16_AbsentFieldsOmitted ==
  \A r \in requests :
    r.called =>
      /\ r.context.batteryLevel = <<>> =>
           (~Mentions(r.systemInstruction, "- Power: ")
              /\ ~Mentions(r.systemInstruction, "Unknown"))
      /\ r.context.geolocation = <<>> =>
           ~Mentions(r.systemInstruction, "- Location: Lat ")

\* C16, amended: a missing geolocation is omitted from the system
\* instruction (its line is empty), a present one is rendered with its
\* latitude and longitude; a known battery level is rendered as a
\* percentage, and an unknown one is rendered as the placeholder "Unknown"
\* on the power line.
C16_OnlyGeolocationOmitted ==
  \A r \in requests :
    r.called =>
      /\ r.context.geolocation = <<>> =>
           (r.systemInstruction[6] = <<>>
              /\ ~Mentions(r.systemInstruction, "- Location: Lat ")
              /\ ~Mentions(SubSeq(r.systemInstruction, 5, 6), "Unknown"))
      /\ r.context.geolocation # <<>> =>
           r.systemInstruction[6] =
             <<"- Location: Lat ", ToString(r.context.geolocation[1].lat),
               ", Lng ", ToString(r.context.geolocation[1].lng)>>
      /\ r.context.batteryLevel = <<>> =>
           SubSeq(r.systemInstruction[4], 1, 2) = <<"- Power: ", "Unknown">>
      /\ r.context.batteryLevel # <<>> =>
           /\ r.systemInstruction[4][1] = "- Power: "
           /\ r.systemInstruction[4][3] = "%"
           /\ ~Mentions(r.systemInstruction, "Unknown")

\* a request is in flight that was built with no battery level and no
\* geolocation
C16_Witness ==
  \E r \in requests :
    /\ r.called
    /\ r.context.batteryLevel = <<>> /\ r.context.geolocation = <<>>
    /\ Mentions(r.systemInstruction, "Unknown")

\* ------------------------------------------------------------------ C14
\* C14: with no API key configured, no outbound call is ever made; the call
\* of an accepted submit fails in the next step, which sets Error and the
\* error timer; Error is followed by Idle; and a submit with text
\* that is not blank made after a failed turn is accepted as usual.
C14_NoKeyFailsTurnOnly ==
  /\ [](~hasApiKey => (outbound = 0 /\ \A r \in requests : ~r.called))
  /\ [][(~hasApiKey /\ requests # {}) =>
          (\E r \in requests :
             /\ FailsIn(r) /\ requests' = {} /\ orionState' = Error
             /\ timers' = Append(timers, ErrorTimer(r.turn)))]_vars
  /\ ((~hasApiKey /\ orionState = Error) ~> (orionState = Idle))
  /\ [][(~hasApiKey /\ turns >= 1 /\ submitted' /\ Trim(input) # <<>>) =>
          (turns' = turns + 1 /\ AcceptedEffect)]_vars

\* with no API key the first turn failed and a second submit was accepted
C14_Witness ==
  /\ ~hasApiKey /\ turns = 2 /\ outbound = 0 /\ invocations = 2
  /\ outcome[1].status = "failed" /\ outcome[2].status = "pending"
  /\ orionState = Thinking

\* ------------------------------------------------------------------ C18
\* C18: the number of invocations of generateOrionResponse always equals
\* the number of accepted submits: an accepted submit makes exactly one,
\* in its own step, and no other step makes any; the step in which a call
\* fails starts no call.
C18_OneInvocationPerSubmit ==
  /\ [](invocations = turns)
  /\ [][/\ turns' = turns + 1 =>
             (invocations' = invocations + 1
                /\ Cardinality(requests' \ requests) = 1)
        /\ turns' = turns => invocations' = invocations
        /\ \A r \in requests :
             FailsIn(r) => (invocations' = invocations
                              /\ outbound' = outbound
                              /\ requests' = requests \ {r})]_vars

\* an outbound call failed and its error timer ran; one more submit was
\* accepted since
C18_Witness ==
  /\ hasApiKey /\ turns = 2 /\ invocations = 2 /\ outbound = 2
  /\ outcome[1].status = "failed" /\ PendingTimers("error", 1) = {}
  /\ \E r \in requests : r.turn = 2

\* ------------------------------------------------------------------ C17
\* C17: the ids of the messages in the transcript are pairwise distinct.
C17_IdsPairwiseDistinct ==
  \A i, j \in 1..Len(messages) : i # j => messages[i].id # messages[j].id

\* ------------------------------------------------------------------ C19
\* the session is at rest: Idle, no call in flight, no timer pending
AtRest == orionState = Idle /\ requests = {} /\ timers = <<>>

\* C19: when every call settles and every timer runs, a run with finitely
\* many accepted submits comes to rest and stays at rest.
C19_EventuallyAtRest == <>[]AtRest

\* the session is at rest after a turn that failed and a turn that was
\* answered
C19_Witness ==
  /\ AtRest /\ turns >= 2
  /\ \E m, n \in 1..MaxFairTurns :
       outcome[m].status = "failed" /\ outcome[n].status = "ok"

\* ------------------------------------------------------------------ C20
\* C20: the state is never Listening.
C20_NeverListening == orionState # Listening

\* the state has been through every state the code sets: the first turn
\* was answered, the second failed, and the third has just been answered
C20_Witness ==
  /\ turns = 3 /\ outcome[1].status = "ok" /\ outcome[2].status = "failed"
  /\ orionState = Responding /\ Len(timers) >= 2

\* ------------------------------------------------------------------ C22
\* the user messages of the transcript
UserMessages == {i \in 1..Len(messages) : messages[i].sender = User}
\* the assistant replies of the transcript: the greeting is of turn 0
AssistantReplies ==
  {i \in 1..Len(messages) : messages[i].sender = Orion /\ messages[i].turn >= 1}

\* C22: the transcript holds at most as many assistant replies as user
\* messages, and every reply in it comes after the user message of its turn.
C22_EveryReplyAfterItsUserMessage ==
  /\ Cardinality(AssistantReplies) <= Cardinality(UserMessages)
  /\ \A j \in AssistantReplies :
       \E i \in UserMessages : i < j /\ messages[i].turn = messages[j].turn

\* ------------------------------------------------------------------ C23
\* C23: the assistant replies in the transcript are in the order in which
\* their submits were accepted.
C23_RepliesInSubmitOrder ==
  \A i, j \in AssistantReplies : i < j => messages[i].turn < messages[j].turn

\* ------------------------------------------------------------------ C21
\* this step is a task of the turn flow: a submit, the settling of a call,
\* or a timer callback
TurnFlowStep ==
  \/ submitted'
  \/ \E r \in requests : FailsIn(r) \/ SucceedsIn(r)
  \/ \E i \in 1..Len(timers) : Fires(i)
\* this step is a refresh of the device context that changes it
ContextRefreshStep == deviceContext' # deviceContext

\* C21: a task of the turn flow leaves the device context and the settings
\* unchanged; a refresh of the device context leaves the state, the
\* transcript, the pending input and images, the calls in flight and the
\* timers unchanged, and with them the verdict of the guard of submit; and
\* whatever the device context, a submit outside Thinking with text that is
\* not blank or with an image is accepted, its request carrying the device
\* context and the settings of that moment.
C21_TurnFlowAndObserverApart ==
  /\ [][TurnFlowStep => UNCHANGED <<deviceContext, settings>>]_vars
  /\ [][ContextRefreshStep =>
          /\ UNCHANGED <<orionState, messages, input, attachedImages,
                         requests, timers, turns, outcome>>
          /\ SubmitRejected(input', attachedImages', orionState')
               = SubmitRejected(input, attachedImages, orionState)]_vars
  /\ [][(submitted' /\ orionState # Thinking
           /\ (Trim(input) # <<>> \/ attachedImages # <<>>)) =>
          /\ AcceptedEffect
          /\ \A r \in requests' \ requests :
               r.context = deviceContext /\ r.settings = settings]_vars

\* a submit was accepted while the device was offline with a known battery
\* level, and the device came back online while its call is in flight
C21_Witness ==
  /\ orionState = Thinking /\ deviceContext.isOnline
  /\ \E r \in requests :
       /\ ~r.context.isOnline /\ r.context.batteryLevel # <<>>
       /\ r.context.currentTime = "later"
       /\ r.history # <<>>

====
